---- MODULE Spec2Model ----
(***************************************************************************)
(* Model of the personalised annotation and recommendation handlers of     *)
(* problem/views/oj.py:                                                    *)
(*   ProblemAPI._add_problem_status / ProblemAPI.get                       *)
(*   ContestProblemAPI._add_problem_status / ContestProblemAPI.get         *)
(*   get_user_solved_problems / AIRecommendProblemAPI.get                  *)
(* Python dicts are functions over string keys, lists are sequences, None  *)
(* is the string "None"; a key that a dict does not hold is a string that  *)
(* is not in the DOMAIN of the function.                                   *)
(***************************************************************************)
EXTENDS Integers, Sequences, FiniteSets, TLC

VARIABLES
    profile,      \* the UserProfile row of request.user, or NoProfile
    Problem,      \* the Problem table: _id -> row
    request,      \* the request served last (None before the first one)
    response,     \* what the handler returned
    consulted,    \* the progress namespaces the handler read
    field_score,  \* AIRecommendProblemAPI.get: the dict object it loaded
    weak_field    \* AIRecommendProblemAPI.get: its local weak_field

vars == <<profile, Problem, request, response, consulted, field_score, weak_field>>

-----------------------------------------------------------------------------
(* Bounds *)

MaxRecords == 1        \* entries per progress dict of a profile
MaxPage == 2           \* problems per listing
NumFields == 3         \* subject fields "0" .. str(NumFields - 1)
NumProblems == 4       \* rows of the Problem table in the recommender runs

-----------------------------------------------------------------------------
(* Python values *)

None == "None"
Unset == "unset"       \* the key my_status is not in the dict
EmptyDict == [k \in {} |-> None]

\* dict.get(key, default)
DictGet(d, key, default) == IF key \in DOMAIN d THEN d[key] ELSE default

Digit(d) ==
    CASE d = 0 -> "0" [] d = 1 -> "1" [] d = 2 -> "2" [] d = 3 -> "3"
      [] d = 4 -> "4" [] d = 5 -> "5" [] d = 6 -> "6" [] d = 7 -> "7"
      [] d = 8 -> "8" [] d = 9 -> "9"

\* str(n) of a non-negative int: its decimal digits
RECURSIVE str(_)
str(n) == IF n < 10 THEN Digit(n) ELSE str(n \div 10) \o Digit(n % 10)

ACM == "ACM"           \* ProblemRuleType.ACM, ContestRuleType.ACM
OI == "OI"             \* ProblemRuleType.OI, ContestRuleType.OI
RuleTypes == {ACM, OI}

ACCEPTED == "ACCEPTED"             \* JudgeStatus.ACCEPTED
WRONG_ANSWER == "WRONG_ANSWER"     \* any other JudgeStatus
JudgeStatus == {ACCEPTED, WRONG_ANSWER}

-----------------------------------------------------------------------------
(* Stored data *)

\* the primary keys of the problems that the listings show
ProblemIds == {7, 12}

\* the display id (Problem._id) of the problem with primary key i
DisplayId(i) == "P" \o str(i)

\* one entry of a progress namespace, as the judge writes it under the key
\* str(problem.id): the problem's display id and the best status so far
ProgressRecords(key) == [_id : {"P" \o key}, status : JudgeStatus]

\* a progress namespace: str(problem.id) -> record
ProgressMaps(ids) ==
    UNION {{f \in [K -> UNION {ProgressRecords(k) : k \in K}] :
               \A k \in K : f[k] \in ProgressRecords(k)} :
              K \in {S \in SUBSET {str(i) : i \in ids} :
                        Cardinality(S) <= MaxRecords}}

\* acm_problems_status / oi_problems_status: a dict that holds the keys
\* "problems" and "contest_problems" only once something was recorded
\* there, with at most MaxRecords entries in all
StatusDicts ==
    {d \in UNION {[K -> ProgressMaps(ProblemIds)] :
                     K \in SUBSET {"problems", "contest_problems"}} :
        \A k1, k2 \in DOMAIN d :
            k1 # k2 => Cardinality(DOMAIN d[k1]) + Cardinality(DOMAIN d[k2]) <= MaxRecords}

\* UserProfile.objects.get raises UserProfile.DoesNotExist
NoProfile == [DoesNotExist |-> TRUE]

\* a serialized problem (ProblemSerializer(...).data), my_status not yet set
ProblemViews == [id : ProblemIds, rule_type : RuleTypes, my_status : {Unset}]

\* lists of at most n elements of S
SeqsUpTo(S, n) == UNION {[1..m -> S] : m \in 0..n}

-----------------------------------------------------------------------------
(* ProblemAPI._add_problem_status: returns the annotated queryset_values    *)
(* (the code mutates it in place) and the namespaces that were read.       *)

\* variant: every problem is looked up in the ACM map
ProblemAPI_status_of_acm_only(prof, problem) ==
    LET acm_problems_status == DictGet(prof.acm_problems_status, "problems", EmptyDict)
    IN  DictGet(DictGet(acm_problems_status, str(problem.id), EmptyDict), "status", None)

ProblemAPI_status_of(prof, problem) ==
    LET acm_problems_status == DictGet(prof.acm_problems_status, "problems", EmptyDict)
        oi_problems_status == DictGet(prof.oi_problems_status, "problems", EmptyDict)
    IN  IF problem.rule_type = ACM
        THEN DictGet(DictGet(acm_problems_status, str(problem.id), EmptyDict), "status", None)
        ELSE DictGet(DictGet(oi_problems_status, str(problem.id), EmptyDict), "status", None)

\* what the body of "if request.user.is_authenticated" does
ProblemAPI_annotated(prof, queryset_values) ==
    LET annotate(problem) ==
            [problem EXCEPT !.my_status = ProblemAPI_status_of(prof, problem)]
    IN  [data |->
            IF "results" \in DOMAIN queryset_values
            THEN [queryset_values EXCEPT !.results =
                     [i \in DOMAIN queryset_values.results |->
                         annotate(queryset_values.results[i])]]
            ELSE annotate(queryset_values),
         consulted |-> {<<ACM, "problems">>, <<OI, "problems">>}]

\* variant: the test of is_authenticated is missing
ProblemAPI_add_problem_status_unguarded(authenticated, prof, queryset_values) ==
    ProblemAPI_annotated(prof, queryset_values)

ProblemAPI_add_problem_status(authenticated, prof, queryset_values) ==
    IF authenticated
    THEN ProblemAPI_annotated(prof, queryset_values)
    ELSE [data |-> queryset_values, consulted |-> {}]

(* ContestProblemAPI._add_problem_status: queryset_values is a list *)

\* variant: the global maps ("problems") are read in a contest
ContestProblemAPI_add_problem_status_global(authenticated, prof, contest_rule_type, queryset_values) ==
    IF authenticated
    THEN LET problems_status ==
                 IF contest_rule_type = ACM
                 THEN DictGet(prof.acm_problems_status, "problems", EmptyDict)
                 ELSE DictGet(prof.oi_problems_status, "problems", EmptyDict)
         IN  [data |->
                 [i \in DOMAIN queryset_values |->
                     [queryset_values[i] EXCEPT !.my_status =
                         DictGet(DictGet(problems_status, str(queryset_values[i].id), EmptyDict),
                                 "status", None)]],
              consulted |-> {<<IF contest_rule_type = ACM THEN ACM ELSE OI, "problems">>}]
    ELSE [data |-> queryset_values, consulted |-> {}]

ContestProblemAPI_add_problem_status(authenticated, prof, contest_rule_type, queryset_values) ==
    IF authenticated
    THEN LET problems_status ==
                 IF contest_rule_type = ACM
                 THEN DictGet(prof.acm_problems_status, "contest_problems", EmptyDict)
                 ELSE DictGet(prof.oi_problems_status, "contest_problems", EmptyDict)
         IN  [data |->
                 [i \in DOMAIN queryset_values |->
                     [queryset_values[i] EXCEPT !.my_status =
                         DictGet(DictGet(problems_status, str(queryset_values[i].id), EmptyDict),
                                 "status", None)]],
              consulted |-> {<<IF contest_rule_type = ACM THEN ACM ELSE OI, "contest_problems">>}]
    ELSE [data |-> queryset_values, consulted |-> {}]

-----------------------------------------------------------------------------
(* Handlers of the listing endpoints.  The rows a query returns are inputs. *)

\* no request is being served
NoRequest == [api |-> None, shape |-> None, authenticated |-> FALSE,
              contest_rule_type |-> None, annotate |-> FALSE]

Success(data) == [error |-> None, data |-> data]
Error(msg) == [error |-> "error", data |-> msg]

\* ProblemAPI.get with problem_id: the detail page
ProblemAPI_get_detail ==
    /\ request = NoRequest
    /\ \E authenticated \in BOOLEAN :
        LET req == [api |-> "ProblemAPI", shape |-> "single",
                    authenticated |-> authenticated, contest_rule_type |-> None,
                    annotate |-> FALSE]
        IN  \/ /\ request' = req
               /\ response' = Error("Problem does not exist")
               /\ consulted' = {}
            \/ \E problem_data \in ProblemViews :
                 LET r == ProblemAPI_add_problem_status(authenticated, profile, problem_data)
                 IN  /\ request' = [req EXCEPT !.annotate = TRUE]
                     /\ response' = Success(r.data)
                     /\ consulted' = r.consulted
    /\ UNCHANGED <<profile, Problem, field_score, weak_field>>

\* ProblemAPI.get without problem_id: the paginated list
ProblemAPI_get_list ==
    /\ request = NoRequest
    /\ \E authenticated \in BOOLEAN :
        LET req == [api |-> "ProblemAPI", shape |-> "page",
                    authenticated |-> authenticated, contest_rule_type |-> None,
                    annotate |-> FALSE]
        IN  \/ /\ request' = req
               /\ response' = Error("Limit is needed")
               /\ consulted' = {}
            \/ \E results \in SeqsUpTo(ProblemViews, MaxPage) :
                 LET data == [results |-> results, total |-> Len(results)]
                     r == ProblemAPI_add_problem_status(authenticated, profile, data)
                 IN  /\ request' = [req EXCEPT !.annotate = TRUE]
                     /\ response' = Success(r.data)
                     /\ consulted' = r.consulted
    /\ UNCHANGED <<profile, Problem, field_score, weak_field>>

\* ContestProblemAPI.get with problem_id
ContestProblemAPI_get_detail ==
    /\ request = NoRequest
    /\ \E authenticated \in BOOLEAN, contest_rule_type \in RuleTypes :
        LET req == [api |-> "ContestProblemAPI", shape |-> "single",
                    authenticated |-> authenticated,
                    contest_rule_type |-> contest_rule_type, annotate |-> FALSE]
        IN  \/ /\ request' = req
               /\ response' = Error("Problem does not exist.")
               /\ consulted' = {}
            \/ \E problem_data \in ProblemViews, problem_details_permission \in BOOLEAN :
                 IF problem_details_permission
                 THEN LET r == ContestProblemAPI_add_problem_status(
                                   authenticated, profile, contest_rule_type, <<problem_data>>)
                      IN  /\ request' = [req EXCEPT !.annotate = TRUE]
                          /\ response' = Success(r.data[1])
                          /\ consulted' = r.consulted
                 ELSE /\ request' = req
                      /\ response' = Success(problem_data)
                      /\ consulted' = {}
    /\ UNCHANGED <<profile, Problem, field_score, weak_field>>

\* ContestProblemAPI.get without problem_id: the contest's problem list
ContestProblemAPI_get_list ==
    /\ request = NoRequest
    /\ \E authenticated \in BOOLEAN, contest_rule_type \in RuleTypes,
          contest_problems \in SeqsUpTo(ProblemViews, MaxPage),
          problem_details_permission \in BOOLEAN :
        /\ request' = [api |-> "ContestProblemAPI", shape |-> "list",
                       authenticated |-> authenticated,
                       contest_rule_type |-> contest_rule_type,
                       annotate |-> problem_details_permission]
        /\ IF problem_details_permission
           THEN LET r == ContestProblemAPI_add_problem_status(
                             authenticated, profile, contest_rule_type, contest_problems)
                IN  /\ response' = Success(r.data)
                    /\ consulted' = r.consulted
           ELSE /\ response' = Success(contest_problems)
                /\ consulted' = {}
    /\ UNCHANGED <<profile, Problem, field_score, weak_field>>

InitAnnotate ==
    /\ profile \in [field_score : {<<>>},
                    acm_problems_status : StatusDicts,
                    oi_problems_status : StatusDicts]
    /\ Problem = EmptyDict
    /\ request = NoRequest
    /\ response = None
    /\ consulted = {}
    /\ field_score = None
    /\ weak_field = None

-----------------------------------------------------------------------------
(* AIRecommendProblemAPI *)

VeryHigh == 5          \* ProblemScore.score['VeryHigh']
TierCount == 20        \* the factor of line 150
SampleSize == 3        \* the 3 of line 163

Min(a, b) == IF a < b THEN a ELSE b

\* field_score is a dict whose iteration order matters: a sequence of
\* items [k |-> key, v |-> value] in the order .items() yields them.  The
\* stored vector has one item per subject field, "0" first, in ascending
\* field id (the key order of the JSON column).
Fields == {str(i) : i \in 0..(NumFields - 1)}
ScoreValues == {5, VeryHigh * TierCount + 20, VeryHigh * TierCount + 50}
FieldScoreVectors ==
    {[i \in 1..NumFields |-> [k |-> str(i - 1), v |-> f[i]]] :
        f \in [1..NumFields -> ScoreValues]}

Keys(d) == {d[i].k : i \in DOMAIN d}

\* d[key]; raises KeyError (here: TLC fails) when the key is missing
IndexOf(d, key) == CHOOSE i \in DOMAIN d : d[i].k = key
GetItem(d, key) == d[IndexOf(d, key)].v

\* d[key] = value: overwrites in place, a new key goes last
SetItem(d, key, value) ==
    IF key \in Keys(d)
    THEN SubSeq(d, 1, IndexOf(d, key) - 1) \o <<[k |-> key, v |-> value]>>
            \o SubSeq(d, IndexOf(d, key) + 1, Len(d))
    ELSE Append(d, [k |-> key, v |-> value])

\* the int 0 that weak_field starts as (the keys are strings)
IntZero == "int(0)"

\* filter(field=weak_field): the ORM converts the lookup value to the
\* column's type, so the int 0 and the key "0" name the same field
FieldLookup(value) == IF value = IntZero THEN "0" ELSE value

\* variant: the raw value v is compared, not the capped one
RECURSIVE ScanFieldScore_raw(_, _, _, _)
ScanFieldScore_raw(d, i, wf, wfs) ==
    IF i > Len(d)
    THEN [field_score |-> d, weak_field |-> wf, weak_field_score |-> wfs]
    ELSE LET k == d[i].k
             v == d[i].v
             d2 == SetItem(d, k, Min(v, GetItem(d, "max_score")))
         IN  IF v < wfs
             THEN ScanFieldScore_raw(d2, i + 1, k, v)
             ELSE ScanFieldScore_raw(d2, i + 1, wf, wfs)

\* variant: the value is stored back without min(v, max_score)
RECURSIVE ScanFieldScore_nocap(_, _, _, _)
ScanFieldScore_nocap(d, i, wf, wfs) ==
    IF i > Len(d)
    THEN [field_score |-> d, weak_field |-> wf, weak_field_score |-> wfs]
    ELSE LET k == d[i].k
             v == d[i].v
         IN  IF v < wfs
             THEN ScanFieldScore_nocap(d, i + 1, k, v)
             ELSE ScanFieldScore_nocap(d, i + 1, wf, wfs)

\* lines 154-158, the loop from the i-th item on
RECURSIVE ScanFieldScore(_, _, _, _)
ScanFieldScore(d, i, wf, wfs) ==
    IF i > Len(d)
    THEN [field_score |-> d, weak_field |-> wf, weak_field_score |-> wfs]
    ELSE LET k == d[i].k
             v == d[i].v
             d2 == SetItem(d, k, Min(v, GetItem(d, "max_score")))
         IN  IF GetItem(d2, k) < wfs
             THEN ScanFieldScore(d2, i + 1, k, GetItem(d2, k))
             ELSE ScanFieldScore(d2, i + 1, wf, wfs)

\* lines 150-158
CapAndFindWeakField(loaded) ==
    LET d == SetItem(loaded, "max_score", VeryHigh * TierCount)
    IN  ScanFieldScore(d, 1, IntZero, GetItem(d, "0"))

\* variant: the keys of the map are returned, not the records' _id
get_user_solved_problems_keys(prof) ==
    LET solved_problems == DictGet(prof.acm_problems_status, "problems", EmptyDict)
    IN  {k \in DOMAIN solved_problems : solved_problems[k].status = ACCEPTED}

\* get_user_solved_problems (as a set: it is only used in _id__in)
get_user_solved_problems(prof) ==
    LET solved_problems == DictGet(prof.acm_problems_status, "problems", EmptyDict)
    IN  {solved_problems[k]._id :
            k \in {x \in DOMAIN solved_problems : solved_problems[x].status = ACCEPTED}}

\* lines 161-162: the primary keys of the rows the queryset selects
UnresolvedProblems(table, wf, solved) ==
    {i \in DOMAIN table :
        /\ table[i].field = FieldLookup(wf)
        /\ table[i].visible
        /\ table[i]._id \notin solved}

\* variant: random.choices, which draws with replacement
Samples_with_replacement(population, k) == [1..k -> population]

\* random.sample(population, k): any k distinct elements in any order
Samples(population, k) ==
    {q \in [1..k -> population] : \A i, j \in 1..k : i # j => q[i] # q[j]}

\* variant: the missing profile is answered with self.success
NotFound_as_success(msg) == [error |-> None, data |-> msg]

NotFound(msg) == [error |-> "HttpResponseNotFound", data |-> msg]

\* lines 147-168 but for what they leave alone
RecommendOutcome ==
    /\ request = NoRequest
    /\ request' = [api |-> "AIRecommendProblemAPI", shape |-> None,
                   authenticated |-> TRUE, contest_rule_type |-> None,
                   annotate |-> FALSE]
    /\ IF profile = NoProfile
       THEN /\ response' = NotFound("User does not exist")
            /\ field_score' = None
            /\ weak_field' = None
            /\ consulted' = {}
       ELSE LET scan == CapAndFindWeakField(profile.field_score)
                unresolved_problems ==
                    UnresolvedProblems(Problem, scan.weak_field,
                                       get_user_solved_problems(profile))
            IN  /\ field_score' = scan.field_score
                /\ weak_field' = scan.weak_field
                /\ consulted' = {<<ACM, "problems">>}
                /\ \E sample \in Samples(unresolved_problems,
                                         Min(SampleSize, Cardinality(unresolved_problems))) :
                     response' = Success([field_score |-> scan.field_score,
                                          recommend_problems |-> sample])

\* variant: the handler saves the profile whose dict it capped
AIRecommendProblemAPI_get_saves ==
    /\ RecommendOutcome
    /\ profile' = IF profile = NoProfile THEN profile
                  ELSE [profile EXCEPT !.field_score = field_score']
    /\ UNCHANGED Problem

\* the handler saves nothing: the stored rows stay as they are
AIRecommendProblemAPI_get ==
    /\ RecommendOutcome
    /\ UNCHANGED <<profile, Problem>>

\* the response has been sent; the worker takes the next request
Respond ==
    /\ request # NoRequest
    /\ request' = NoRequest
    /\ response' = None
    /\ consulted' = {}
    /\ field_score' = None
    /\ weak_field' = None
    /\ UNCHANGED <<profile, Problem>>

\* the Problem table
CatalogIds == 1..NumProblems
Contests == {None, "contest-1"}
\* the fields that the catalog has problems of
CatalogFields == {"0", "1"}

\* (field, visible, contest_id) numbered: r is field r \div 4, visible for
\* the first two of every four, attached to a contest for the odd ones
RowRanks == 0..(4 * Cardinality(CatalogFields) - 1)
RowOf(i, r) ==
    [_id |-> DisplayId(i), field |-> str(r \div 4), visible |-> (r % 4) < 2,
     contest_id |-> IF r % 2 = 0 THEN None ELSE "contest-1"]

\* the non-decreasing sequences of n ranks that are all >= lo
RECURSIVE NonDecreasing(_, _)
NonDecreasing(n, lo) ==
    IF n = 0 THEN {<<>>}
    ELSE UNION {{<<r>> \o q : q \in NonDecreasing(n - 1, r)} : r \in {x \in RowRanks : x >= lo}}

\* tables are enumerated up to a renumbering of the primary keys: the rows
\* are listed in a fixed order of (field, visible, contest_id)
ProblemTables ==
    {[i \in CatalogIds |-> RowOf(i, q[i])] : q \in NonDecreasing(NumProblems, 0)}

\* a public catalog: problem i in field (i - 1) mod NumFields
PublicTable == [i \in CatalogIds |-> RowOf(i, 4 * ((i - 1) % NumFields))]

\* one vector per field, that field being the only weak one
OneWeakVectors ==
    {[i \in 1..NumFields |-> [k |-> str(i - 1), v |-> IF i = w THEN 5 ELSE 40]] :
        w \in 1..NumFields}

Profiles(vectors) ==
    [field_score : vectors,
     acm_problems_status : [{"problems"} -> ProgressMaps(CatalogIds)],
     oi_problems_status : {EmptyDict}]

Idle ==
    /\ request = NoRequest
    /\ response = None
    /\ consulted = {}
    /\ field_score = None
    /\ weak_field = None

\* every score vector against a public catalog
InitScores ==
    /\ profile \in Profiles(FieldScoreVectors) \cup {NoProfile}
    /\ Problem = PublicTable
    /\ Idle

\* every catalog against the vectors of OneWeakVectors
InitPool ==
    /\ Problem \in ProblemTables
    /\ profile \in Profiles(OneWeakVectors) \cup {NoProfile}
    /\ Idle

NextAnnotate ==
    \/ Respond
    \/ ProblemAPI_get_detail
    \/ ProblemAPI_get_list
    \/ ContestProblemAPI_get_detail
    \/ ContestProblemAPI_get_list

SpecAnnotate == InitAnnotate /\ [][NextAnnotate]_vars

NextRecommend ==
    \/ Respond
    \/ AIRecommendProblemAPI_get

SpecScores == InitScores /\ [][NextRecommend]_vars
SpecPool == InitPool /\ [][NextRecommend]_vars

-----------------------------------------------------------------------------
(* Properties of the annotation (checked under SpecAnnotate) *)

\* a listing endpoint answered with problem data
Listed(api) ==
    /\ request # NoRequest
    /\ request.api = api
    /\ response.error = None

\* the problems of the response, whatever its shape
ViewsOf(data) ==
    IF request.shape = "single" THEN <<data>>
    ELSE IF request.shape = "page" THEN data.results
    ELSE data

\* the status recorded for problem id in the namespace {rule, scope} of
\* the stored profile, None when the namespace or the key is missing
Recorded(rule, scope, id) ==
    LET dict == IF rule = ACM THEN profile.acm_problems_status
                              ELSE profile.oi_problems_status
    IN  IF scope \in DOMAIN dict /\ str(id) \in DOMAIN dict[scope]
        THEN dict[scope][str(id)].status
        ELSE None

\* C1: for an authenticated user outside a contest, every problem of the
\* response (single view or page) carries the status recorded under
\* str(p.id) in the global namespace of p's own rule type, None when there
\* is no such key or no such namespace; and a single view and a one-element
\* page of the same problem get the same my_status.
C1_GlobalStatus ==
    /\ (Listed("ProblemAPI") /\ request.authenticated) =>
          \A i \in DOMAIN ViewsOf(response.data) :
              LET p == ViewsOf(response.data)[i]
              IN  p.my_status = Recorded(p.rule_type, "problems", p.id)
    /\ Listed("ProblemAPI") =>
          \A v \in ProblemViews :
              ProblemAPI_add_problem_status(TRUE, profile, v).data.my_status =
              ProblemAPI_add_problem_status(
                  TRUE, profile, [results |-> <<v>>, total |-> 1]).data.results[1].my_status

\* an authenticated page of two OI problems, the first with a recorded
\* status and the second without, while the ACM map holds another status
\* for the first
C1_Witness ==
    /\ Listed("ProblemAPI") /\ request.authenticated /\ request.shape = "page"
    /\ Len(response.data.results) = 2
    /\ response.data.results[1].rule_type = OI
    /\ response.data.results[1].my_status = ACCEPTED
    /\ Recorded(ACM, "problems", response.data.results[1].id) = WRONG_ANSWER
    /\ response.data.results[2].my_status = None

\* C2 as stated: in a contest, every annotated problem carries the status
\* recorded under str(p.id) in the contest namespace of p's own rule type.
C2_PerProblemRule ==
    (Listed("ContestProblemAPI") /\ request.annotate /\ request.authenticated) =>
        \A i \in DOMAIN ViewsOf(response.data) :
            LET p == ViewsOf(response.data)[i]
            IN  p.my_status = Recorded(p.rule_type, "contest_problems", p.id)

\* C2 amended: in a contest, every annotated problem carries the status
\* recorded under str(p.id) in the contest namespace of the contest's rule
\* type (ACM map for an ACM contest, OI map otherwise), None when there is
\* no such key, whatever the problem's own rule type.
C2_ContestRule ==
    (Listed("ContestProblemAPI") /\ request.annotate /\ request.authenticated) =>
        \A i \in DOMAIN ViewsOf(response.data) :
            LET p == ViewsOf(response.data)[i]
            IN  p.my_status = Recorded(request.contest_rule_type, "contest_problems", p.id)

\* an OI problem listed in an ACM contest gets the status of the ACM
\* contest map, which the global ACM map does not hold
C2_Witness ==
    /\ Listed("ContestProblemAPI") /\ request.annotate /\ request.authenticated
    /\ request.shape = "list" /\ request.contest_rule_type = ACM
    /\ Len(response.data) = 2
    /\ response.data[1].rule_type = OI
    /\ response.data[1].my_status = ACCEPTED
    /\ Recorded(ACM, "problems", response.data[1].id) = None
    /\ response.data[2].rule_type = ACM

\* C9: for an unauthenticated request, in both the global and the contest
\* endpoints and for every shape, every problem of the response has
\* my_status unset (or None) and no progress namespace was read.
C9_AnonymousUnset ==
    /\ ((Listed("ProblemAPI") \/ Listed("ContestProblemAPI")) /\ ~request.authenticated) =>
          /\ \A i \in DOMAIN ViewsOf(response.data) :
                 ViewsOf(response.data)[i].my_status \in {Unset, None}
          /\ consulted = {}

\* an anonymous single view of a problem that the profile has a status for
C9_Witness ==
    /\ Listed("ProblemAPI") /\ ~request.authenticated /\ request.annotate
    /\ request.shape = "single"
    /\ response.data.my_status = Unset
    /\ Recorded(response.data.rule_type, "problems", response.data.id) = ACCEPTED

-----------------------------------------------------------------------------
(* Properties of the recommender (checked under SpecScores and SpecPool) *)

ScoreCap == VeryHigh * TierCount

\* the recommender answered with a result
Recommended ==
    /\ request # NoRequest
    /\ request.api = "AIRecommendProblemAPI"
    /\ response.error = None

\* the stored score of field number n, raw and capped
Raw(n) == GetItem(profile.field_score, str(n))
Capped(n) == IF Raw(n) < ScoreCap THEN Raw(n) ELSE ScoreCap

FieldNumbers == 0..(NumFields - 1)

\* the number of the field the handler queried the catalog with
WeakFieldNumber == CHOOSE n \in FieldNumbers : str(n) = FieldLookup(weak_field)

\* C3: the weak field has the least capped score of all fields, and every
\* field of a smaller id has a strictly greater capped score (the first of
\* the tied fields in ascending id order, "0" first, is selected); raw
\* values above the cap do not decide.
C3_WeakFieldIsFirstMinimum ==
    Recommended =>
        /\ FieldLookup(weak_field) \in Keys(profile.field_score)
        /\ \A n \in FieldNumbers : Capped(WeakFieldNumber) <= Capped(n)
        /\ \A n \in FieldNumbers : n < WeakFieldNumber => Capped(n) > Capped(WeakFieldNumber)

\* fields "0" and "1" are both above the cap, "1" with the smaller raw
\* score, every field is tied at the cap, and "0" is selected
C3_Witness ==
    /\ Recommended
    /\ Raw(0) > Raw(1) /\ Raw(1) > ScoreCap
    /\ \A n \in FieldNumbers : Capped(n) = ScoreCap
    /\ FieldLookup(weak_field) = "0"

\* the solved set, read off the stored profile
SolvedIds ==
    LET dict == profile.acm_problems_status
    IN  IF "problems" \in DOMAIN dict
        THEN {id \in {Problem[i]._id : i \in DOMAIN Problem} :
                 \E key \in DOMAIN dict["problems"] :
                     /\ dict["problems"][key].status = ACCEPTED
                     /\ dict["problems"][key]._id = id}
        ELSE {}

Returned == {response.data.recommend_problems[i] :
                i \in DOMAIN response.data.recommend_problems}

\* C4 as stated: every recommended problem is a problem of the weak field
\* that is visible and attached to no contest.
C4_PublicPoolOnly ==
    Recommended =>
        \A i \in Returned :
            /\ Problem[i].field = FieldLookup(weak_field)
            /\ Problem[i].visible
            /\ Problem[i].contest_id = None

\* C5: no recommended problem has its id in the solved set, the ids of the
\* entries of the global ACM progress map whose status is ACCEPTED.
C5_NeverSolved ==
    Recommended => \A i \in Returned : Problem[i]._id \notin SolvedIds

\* a visible problem of the weak field is solved, and others are recommended
C5_Witness ==
    /\ Recommended
    /\ Returned # {}
    /\ \E i \in DOMAIN Problem :
          /\ Problem[i].field = FieldLookup(weak_field)
          /\ Problem[i].visible
          /\ Problem[i]._id \in SolvedIds

\* the unresolved set of lines 161-162: the visible problems of the weak
\* field that are not solved
Unresolved ==
    {i \in DOMAIN Problem :
        /\ Problem[i].field = FieldLookup(weak_field)
        /\ Problem[i].visible
        /\ Problem[i]._id \notin SolvedIds}

\* C6: the recommendation holds exactly min(3, |unresolved|) problems, they
\* are pairwise distinct and all of the unresolved set; an empty unresolved
\* set gives an empty list in a normal answer.
C6_SampleSize ==
    Recommended =>
        LET rp == response.data.recommend_problems
        IN  /\ Len(rp) = (IF Cardinality(Unresolved) < 3 THEN Cardinality(Unresolved) ELSE 3)
            /\ \A i, j \in DOMAIN rp : i # j => rp[i] # rp[j]
            /\ \A i \in DOMAIN rp : rp[i] \in Unresolved

\* more than three unresolved problems, three of them recommended
C6_Witness ==
    /\ Recommended
    /\ Cardinality(Unresolved) > 3
    /\ Len(response.data.recommend_problems) = 3

\* C7 as stated: the returned field_score has exactly the field ids of the
\* stored vector, each with the value min(raw, cap).
C7_SameKeysCapped ==
    Recommended =>
        /\ Keys(response.data.field_score) = Keys(profile.field_score)
        /\ \A n \in FieldNumbers :
               GetItem(response.data.field_score, str(n)) = Capped(n)

\* C7 amended: the returned field_score has the field ids of the stored
\* vector and the one further key "max_score", whose value is the cap;
\* every field has the value min(raw, cap), which is <= cap and <= raw.
C7_KeysPlusMaxScore ==
    Recommended =>
        /\ Keys(response.data.field_score) = Keys(profile.field_score) \cup {"max_score"}
        /\ GetItem(response.data.field_score, "max_score") = ScoreCap
        /\ \A n \in FieldNumbers :
               /\ GetItem(response.data.field_score, str(n)) = Capped(n)
               /\ GetItem(response.data.field_score, str(n)) <= ScoreCap
               /\ GetItem(response.data.field_score, str(n)) <= Raw(n)

\* a raw score above the cap is returned as the cap, one below it as it is
C7_Witness ==
    /\ Recommended
    /\ Raw(0) > ScoreCap
    /\ GetItem(response.data.field_score, "0") = ScoreCap
    /\ Raw(1) < ScoreCap
    /\ GetItem(response.data.field_score, "1") = Raw(1)

C10_InputObjectUnchanged ==
    Recommended => field_score = profile.field_score

\* C10 amended: the handler caps the loaded vector object in place; what
\* keeps its keys and raw values is the stored vector, which no step of
\* the handler writes.
C10_StoredVectorKept == [][profile' = profile]_vars

\* the loaded object holds the cap where the stored vector holds 150
C10_Witness ==
    /\ Recommended
    /\ Raw(0) > ScoreCap
    /\ GetItem(field_score, "0") = ScoreCap
    /\ "max_score" \in Keys(field_score)
    /\ "max_score" \notin Keys(profile.field_score)

====
